---- MODULE Spec2Model ----
(***************************************************************************)
(* Model of the slide-deck service in railway-api/app: the three deck      *)
(* pipelines (scripture, hymn, call to worship), the request handlers      *)
(* around them, the background-image resolver and the temp-file helpers.   *)
(*                                                                         *)
(* Texts are sequences of one-character strings so that str.strip() and    *)
(* str.split('<br>') are computed character by character.  Paths are       *)
(* integers handed out by the temporary-name allocator; NoPath is None.    *)
(* A Python list that may also be None (verses_alt, pairs) is a sequence:  *)
(* None and [] take the same branch of every `if x:` test in the code.     *)
(***************************************************************************)
EXTENDS Integers, Sequences, FiniteSets, TLC

\* ------------------------------------------------------------------ bounds
MaxVerses   == 2      \* longest primary verse list
MaxAlt      == 2      \* longest alternate-translation verse list
MaxSections == 2      \* longest hymn lyrics list
MaxPairs    == 2      \* longest call-to-worship pair list
MaxTextLen  == 310    \* longest verse text handed to the font-size policy
MaxB64Len   == 6      \* longest background_image string given to the resolver
MaxOps      == 3      \* most effect-layer calls applied to one run
MaxBgSlides == 2      \* most slides given a background one at a time

\* --------------------------------------------------------------- constants
NoPath     == 0       \* background_image_path = None
CallerFile == 0 - 1   \* output_file given by a direct caller (not a temp file)

Whitespace == {" ", "\n"}

\* ----------------------------------------------------------- text helpers
\* str.strip(): drop leading and trailing whitespace.
RECURSIVE LStrip(_)
LStrip(s) ==
    IF s # <<>> /\ Head(s) \in Whitespace THEN LStrip(Tail(s)) ELSE s

RECURSIVE RStrip(_)
RStrip(s) ==
    IF s # <<>> /\ s[Len(s)] \in Whitespace
    THEN RStrip(SubSeq(s, 1, Len(s) - 1)) ELSE s

StripNone(s) == s

Strip(s) == RStrip(LStrip(s))

\* s has marker m starting at position i
MatchAt(s, m, i) ==
    /\ i + Len(m) - 1 <= Len(s)
    /\ \A k \in 1..Len(m) : s[i + k - 1] = m[k]

\* str.split(m): scan left to right, cut at every non-overlapping m;
\* always returns at least one fragment.
RECURSIVE SplitFrom(_, _, _, _)
SplitFrom(s, m, i, cur) ==
    IF i > Len(s) THEN <<cur>>
    ELSE IF MatchAt(s, m, i)
         THEN <<cur>> \o SplitFrom(s, m, i + Len(m), <<>>)
         ELSE SplitFrom(s, m, i + 1, Append(cur, s[i]))

Split(s, m) == SplitFrom(s, m, 1, <<>>)

BrMarker == <<"<", "b", "r", ">">>

\* Python truthiness of a str / list / int
Truthy(x) == x # <<>>
TruthyInt(n) == n # 0

\* sorted(keys)
RECURSIVE SortedSeq(_)
SortedSeq(S) ==
    IF S = {} THEN <<>>
    ELSE LET m == CHOOSE x \in S : \A y \in S : x <= y
         IN  <<m>> \o SortedSeq(S \ {m})

\* ------------------------------------------------------------------ state
VARIABLES
    kind,          \* which pipeline this invocation runs
    direct,        \* TRUE: the pipeline function is called directly, no handler
    req,           \* the request / the arguments
    pc,            \* position of the invocation
    fs,            \* paths that exist in the temp directory
    tmpCount,      \* names handed out by tempfile.NamedTemporaryFile
    outPath,       \* output_path / output_file
    bgPath,        \* background_image_path
    resolveCount,  \* calls of process_background_image in this invocation
    prs,           \* the deck: sequence of slides
    slide_count,   \* the pipeline's own counter
    i, j,          \* loop positions (record index, fragment index)
    events,        \* history: "slide", "cleanup", "serialize" in order
    status,        \* outcome of the invocation
    outDeck,       \* slides written to the output file
    saved,         \* the output file holds a serialized deck
    unlinkFailed,  \* history: os.unlink raised inside cleanup_temp_file
    fontLen,       \* len(text) handed to the font-size policy
    reported,      \* slide count in the returned summary (-1: none yet)
    fontPt,        \* point size the policy chose (0: not applied yet)
    exc,           \* str(e) of the exception raised in this invocation
    detail,        \* detail of the error response
    bgBytes,       \* bytes written to the background temp file
    images,        \* paths whose content the picture loader accepts
    rPr,           \* children of one run's a:rPr node, in document order
    hist,          \* effect-layer calls made on that run so far
    shapes,        \* shapes of the slide under construction, bottom first
    placeholder,   \* the decorative image file: "missing", "ok" or "broken"
    procs,         \* concurrent requests: position and temp paths of each
    target,        \* what an effect helper is handed: "ok" or "malformed"
    endRPr         \* children of the paragraph's a:endParaRPr node

vars == <<kind, direct, req, pc, fs, tmpCount, outPath, bgPath, resolveCount,
          prs, slide_count, i, j, events, status, outDeck, saved,
          unlinkFailed, fontLen, reported, fontPt, exc, detail, bgBytes,
          images, rPr, hist, shapes, placeholder, procs, target, endRPr>>

\* all sequences over S of length 0..n
SeqsUpTo(S, n) == UNION {[1..k -> S] : k \in 0..n}

\* --------------------------------------------------------------- inputs
\* background_image: absent, a data URL with a base64 payload, or a data URL
\* whose payload base64 cannot decode
BgNone    == <<>>
BgGood    == <<":", ",", "A", "B", "A", "B">>
BgCorrupt == <<":", ",", "A">>
BgInputs  == {BgNone, BgGood, BgCorrupt}
TruthyBg(b) == Truthy(b)

\* verse texts: blank after trimming, or not; verse number 0 is falsy
VerseTexts == {<<" ">>, <<" ", "a", " ">>}
AltTexts   == {<<>>, <<"b", " ">>}
VerseNums  == {0, 1, 2}

ScriptureRequests ==
    [verses           : SeqsUpTo([verse : VerseNums, text : VerseTexts], MaxVerses),
     verses_alt       : SeqsUpTo([verse : VerseNums, text : AltTexts], MaxAlt),
     background_image : BgInputs]

\* ------------------------------------------------------- shared utilities
\* process_background_image: decode, write a fresh temp file, return its
\* name; any failure is caught and None is returned.  n is the number of
\* temp names already handed out.
\* characters of the base64 alphabet that occur in the inputs
B64Alphabet == {"A", "B"}

IsB64Char(c) == c \in B64Alphabet

\* `if ',' in data: data = data.split(',')[1]`
StripHeader(data) ==
    IF "," \in {data[k] : k \in 1..Len(data)}
    THEN Split(data, <<",">>)[2] ELSE data

\* base64.b64decode(s), validate=False: characters outside the alphabet are
\* discarded, the rest must come in groups of four.  The bytes are
\* represented by the sextets they are made of (no input carries padding).
B64Decode(s) ==
    LET d == SelectSeq(s, IsB64Char)
    IN  [ok |-> Len(d) % 4 = 0, bytes |-> IF Len(d) % 4 = 0 THEN d ELSE <<>>]

\* what process_background_image writes and returns; raised is TRUE when an
\* exception leaves the function
ProcessBackgroundImage_uncaught(data, n) ==
    LET d == B64Decode(StripHeader(data))
    IN  IF ~Truthy(data) THEN [path |-> NoPath, bytes |-> <<>>, raised |-> FALSE]
        ELSE IF d.ok THEN [path |-> n + 1, bytes |-> d.bytes, raised |-> FALSE]
        ELSE [path |-> NoPath, bytes |-> <<>>, raised |-> TRUE]

ProcessBackgroundImage(data, n) ==
    LET d == B64Decode(StripHeader(data))
    IN  IF ~Truthy(data) THEN [path |-> NoPath, bytes |-> <<>>, raised |-> FALSE]
        ELSE IF d.ok THEN [path |-> n + 1, bytes |-> d.bytes, raised |-> FALSE]
        ELSE [path |-> NoPath, bytes |-> <<>>, raised |-> FALSE]

\* set_slide_background, `if path and os.path.exists(path)` then
\* add_picture: the picture is added when the loader accepts the file
PictureAdded(path, files) ==
    path # NoPath /\ path \in files /\ path \in images

\* set_slide_background: the value returned
SetSlideBackground(path, files) == PictureAdded(path, files)

\* set_slide_background: the solid white fill, set on every path through
\* the function that has not returned after add_picture
WhiteFill_unlessRaised(path, files) == ~(path # NoPath /\ path \in files)

WhiteFill(path, files) == ~PictureAdded(path, files)

\* cleanup_temp_file (slides/utils.py): unlink when the path is set and
\* exists; a failing unlink is swallowed.  Temp names always satisfy the
\* 'tmp' / tempdir test.
CleanupTempFile(path, files, unlinkOk) ==
    IF path # NoPath /\ path \in files /\ unlinkOk
    THEN files \ {path} ELSE files

\* font size of the scripture content paragraph
ContentFontSize_ge(n) ==
    IF n >= 300 THEN 36
    ELSE IF n >= 200 THEN 44
    ELSE IF n >= 100 THEN 52
    ELSE 58

ContentFontSize(n) ==
    IF n > 300 THEN 36
    ELSE IF n > 200 THEN 44
    ELSE IF n > 100 THEN 52
    ELSE 58

\* where control goes after the slide loop, after cleanup, on an exception
AfterBuild_nocleanup(bg) == "save"

AfterBuild(bg) == IF TruthyBg(bg) THEN "cleanup" ELSE "save"

LoopOrExit(idx, n, bg) == IF idx <= n THEN "loop" ELSE AfterBuild(bg)

RaisePc == IF direct THEN "done" ELSE "except"

\* str(HTTPException(status_code=400, detail='No pairs or text provided'))
BadRequest == "400: No pairs or text provided"

\* the effect-layer history of a run nothing has been applied to
NoCalls == [effects |-> 0, highlight |-> 0, glow |-> 0, other |-> 0,
            last |-> "", parts |-> FALSE]

Repeat(x, n) == [k \in 1..n |-> x]

\* --------------------------------------------------- scripture pipeline
Put(m, k, v) == [x \in (DOMAIN m) \cup {k} |-> IF x = k THEN v ELSE m[x]]

\* first loop of combined mode: verse_map from the primary verses
RECURSIVE AddPrimary(_, _, _)
AddPrimary(m, verses, n) ==
    IF n > Len(verses) THEN m
    ELSE LET v == verses[n]
         IN  AddPrimary(IF TruthyInt(v.verse)
                        THEN Put(m, v.verse,
                                 [nrsvue |-> Strip(v.text), tmb |-> <<>>])
                        ELSE m,
                        verses, n + 1)

\* second loop: the alternate text of verse numbers already in the map
AltGuard_any(m, v) == TruthyInt(v.verse)

AltGuard(m, v) == TruthyInt(v.verse) /\ v.verse \in DOMAIN m

\* verse_map[k]["tmb"] = t
SetTmb(m, k, t) ==
    Put(m, k, [nrsvue |-> IF k \in DOMAIN m THEN m[k].nrsvue ELSE <<>>,
               tmb    |-> t])

RECURSIVE AddAlt(_, _, _)
AddAlt(m, alt, n) ==
    IF n > Len(alt) THEN m
    ELSE LET v == alt[n]
         IN  AddAlt(IF AltGuard(m, v) THEN SetTmb(m, v.verse, Strip(v.text))
                    ELSE m,
                    alt, n + 1)

EmptyMap == [x \in {} |-> <<>>]

VerseMap(verses, alt) == AddAlt(AddPrimary(EmptyMap, verses, 1), alt, 1)

RECURSIVE SortedDesc(_)
SortedDesc(S) ==
    IF S = {} THEN <<>>
    ELSE LET m == CHOOSE x \in S : \A y \in S : y <= x
         IN  <<m>> \o SortedDesc(S \ {m})

KeyOrder_descending(m) == SortedDesc(DOMAIN m)

\* sorted(verse_map.keys())
KeyOrder(m) == SortedSeq(DOMAIN m)

\* one slide of the scripture deck (slide + background + _add_verse_content)
ScriptureSlide(verse, text, label, bg, files) ==
    [kind  |-> "scripture", label |-> label, verse |-> verse, text |-> text,
     bg    |-> bg, image |-> SetSlideBackground(bg, files),
     white |-> WhiteFill(bg, files), size |-> ContentFontSize(Len(text))]

AltSlides_always(vn, texts, bg, files) ==
    <<ScriptureSlide(vn, texts.nrsvue, "NRSVUE", bg, files),
      ScriptureSlide(vn, texts.tmb, "TMB", bg, files)>>

\* slides of one iteration of the combined-mode loop: primary, then alternate
AltSlides(vn, texts, bg, files) ==
    (IF Truthy(texts.nrsvue)
     THEN <<ScriptureSlide(vn, texts.nrsvue, "NRSVUE", bg, files)>> ELSE <<>>)
    \o
    (IF Truthy(texts.tmb)
     THEN <<ScriptureSlide(vn, texts.tmb, "TMB", bg, files)>> ELSE <<>>)

\* slides of one iteration of the single-translation loop
SingleSlides(v, bg, files) ==
    IF Truthy(Strip(v.text))
    THEN <<ScriptureSlide(v.verse, Strip(v.text), "", bg, files)>>
    ELSE <<>>

\* number of iterations of the scripture loop
ScriptureRounds(r) ==
    IF Truthy(r.verses_alt)
    THEN Len(KeyOrder(VerseMap(r.verses, r.verses_alt)))
    ELSE Len(r.verses)

\* create_presentation, background resolution, slide_count = 0.  In the
\* pipelines a payload that decodes is a picture the loader accepts; files
\* the loader rejects are covered by SpecSlide.
BeginPipeline(nextPc) ==
    /\ pc = "call"
    /\ LET r == IF TruthyBg(req.background_image)
                THEN ProcessBackgroundImage(req.background_image, tmpCount)
                ELSE [path |-> NoPath, bytes |-> <<>>, raised |-> FALSE]
           p == r.path
       IN  /\ bgPath' = p
           /\ bgBytes' = r.bytes
           /\ fs' = IF p # NoPath THEN fs \cup {p} ELSE fs
           /\ images' = IF p # NoPath THEN images \cup {p} ELSE images
           /\ tmpCount' = IF p # NoPath THEN tmpCount + 1 ELSE tmpCount
           /\ exc' = IF r.raised THEN "b64decode" ELSE exc
           /\ pc' = IF r.raised THEN RaisePc ELSE nextPc
           /\ status' = IF r.raised /\ direct THEN "raised" ELSE status
    /\ resolveCount' = IF TruthyBg(req.background_image)
                       THEN resolveCount + 1 ELSE resolveCount
    /\ prs' = <<>>
    /\ slide_count' = 0
    /\ i' = 1
    /\ j' = 1
    /\ UNCHANGED <<kind, direct, req, outPath, events, outDeck, saved,
                   unlinkFailed, fontLen, reported, fontPt, detail, rPr, hist,
                   shapes, placeholder, procs, target, endRPr>>

ScriptureBegin ==
    /\ kind = "scripture"
    /\ BeginPipeline(LoopOrExit(1, ScriptureRounds(req), req.background_image))

\* the deck grows by `new`, the loop moves on to record idx of n
AddSlides(new, counted, idx, n) ==
    /\ prs' = prs \o new
    /\ slide_count' = slide_count + counted
    /\ events' = events \o Repeat("slide", Len(new))
    /\ i' = idx
    /\ pc' = LoopOrExit(idx, n, req.background_image)
    /\ UNCHANGED <<kind, direct, req, fs, tmpCount, outPath, bgPath,
                   resolveCount, status, outDeck, saved, unlinkFailed,
                   fontLen, reported, fontPt,
                   exc, detail, bgBytes, images, rPr, hist,
                   shapes, placeholder, procs, target, endRPr>>

\* one iteration of `for verse_num in sorted(verse_map.keys())`
ScriptureAltStep ==
    /\ pc = "loop" /\ kind = "scripture" /\ Truthy(req.verses_alt)
    /\ LET m    == VerseMap(req.verses, req.verses_alt)
           keys == KeyOrder(m)
           new  == AltSlides(keys[i], m[keys[i]], bgPath, fs)
       IN  AddSlides(new, Len(new), i + 1, Len(keys))
    /\ UNCHANGED j

\* one iteration of `for v in verses` (single translation)
ScriptureSingleStep ==
    /\ pc = "loop" /\ kind = "scripture" /\ ~Truthy(req.verses_alt)
    /\ LET new == SingleSlides(req.verses[i], bgPath, fs)
       IN  AddSlides(new, Len(new), i + 1, Len(req.verses))
    /\ UNCHANGED j

\* ------------------------------------------------- epilogue and handlers
\* `if background_image: cleanup_temp_file(background_image_path)`
Cleanup ==
    /\ pc = "cleanup"
    /\ \E unlinkOk \in BOOLEAN :
          /\ fs' = CleanupTempFile(bgPath, fs, unlinkOk)
          /\ unlinkFailed' = (unlinkFailed \/ (bgPath \in fs /\ ~unlinkOk))
    /\ events' = Append(events, "cleanup")
    /\ pc' = "save"
    /\ UNCHANGED <<kind, direct, req, tmpCount, outPath, bgPath, resolveCount,
                   prs, slide_count, i, j, status, outDeck, saved, fontLen,
                   reported, fontPt,
                   exc, detail, bgBytes, images, rPr, hist,
                   shapes, placeholder, procs, target, endRPr>>

Summary_counter == slide_count

\* the count the summary string reports
Summary == IF kind = "ctw" THEN Len(req.pairs) ELSE slide_count

\* save_presentation succeeds and the pipeline returns its summary
Save ==
    /\ pc = "save"
    /\ outDeck' = prs
    /\ saved' = TRUE
    /\ fs' = fs \cup {outPath}
    /\ events' = Append(events, "serialize")
    /\ reported' = Summary
    /\ pc' = IF direct THEN "done" ELSE "respond"
    /\ status' = IF direct THEN "returned" ELSE status
    /\ UNCHANGED <<kind, direct, req, tmpCount, outPath, bgPath, resolveCount,
                   prs, slide_count, i, j, unlinkFailed, fontLen, fontPt,
                   exc, detail, bgBytes, images, rPr, hist,
                   shapes, placeholder, procs, target, endRPr>>

\* prs.save raises (disk full, path not writable); the exception leaves
\* the pipeline
SaveFails ==
    /\ pc = "save"
    /\ pc' = RaisePc
    /\ status' = IF direct THEN "raised" ELSE status
    /\ exc' = "OSError"
    /\ UNCHANGED <<kind, direct, req, fs, tmpCount, outPath, bgPath,
                   resolveCount, prs, slide_count, i, j, events, outDeck,
                   saved, unlinkFailed, fontLen, reported, fontPt,
                   detail, bgBytes, images, rPr, hist,
                   shapes, placeholder, procs, target, endRPr>>

\* handler: output_path = create_temp_file(suffix='.pptx')
HandlerBegin ==
    /\ pc = "recv"
    /\ outPath' = tmpCount + 1
    /\ tmpCount' = tmpCount + 1
    /\ fs' = fs \cup {tmpCount + 1}
    /\ pc' = "call"
    /\ UNCHANGED <<kind, direct, req, bgPath, resolveCount, prs, slide_count,
                   i, j, events, status, outDeck, saved, unlinkFailed,
                   fontLen, reported, fontPt,
                   exc, detail, bgBytes, images, rPr, hist,
                   shapes, placeholder, procs, target, endRPr>>

\* handler: return FileResponse(path=output_path, ...)
HandlerRespond ==
    /\ pc = "respond"
    /\ status' = "200"
    /\ pc' = "done"
    /\ UNCHANGED <<kind, direct, req, fs, tmpCount, outPath, bgPath,
                   resolveCount, prs, slide_count, i, j, events, outDeck,
                   saved, unlinkFailed, fontLen, reported, fontPt,
                   exc, detail, bgBytes, images, rPr, hist,
                   shapes, placeholder, procs, target, endRPr>>

\* status of the response the except clause builds for exception message e
ExceptStatus_passthrough(e) == IF e = BadRequest THEN "400" ELSE "500"

ExceptStatus(e) == "500"

\* handler: except Exception as e -> HTTPException(500, detail=str(e))
HandlerExcept ==
    /\ pc = "except"
    /\ status' = ExceptStatus(exc)
    /\ detail' = exc
    /\ pc' = "done"
    /\ UNCHANGED <<kind, direct, req, fs, tmpCount, outPath, bgPath,
                   resolveCount, prs, slide_count, i, j, events, outDeck,
                   saved, unlinkFailed, fontLen, reported, fontPt,
                   exc, bgBytes, images, rPr, hist,
                   shapes, placeholder, procs, target, endRPr>>

\* -------------------------------------------------------- hymn pipeline
HymnTexts ==
    { <<>>,
      <<"a">>,
      <<"a", "<", "b", "r", ">", "b">>,
      <<"a", "\n", "<", "b", "r", ">", " ", "<", "b", "r", ">", "b">>,
      <<"<", "b", "r", ">", "a", "<", "b", "r">> }

HymnRequests ==
    [lyrics           : SeqsUpTo([page_name : {"", "Verse"}, text : HymnTexts],
                                 MaxSections),
     include_cover    : BOOLEAN,
     background_image : BgInputs]

\* add_hymn_cover_slide
CoverBg_none(bg) == NoPath

CoverBg(bg) == bg

CoverSlide(bg, files) ==
    [kind  |-> "cover", label |-> "", verse |-> 0, text |-> <<>>,
     bg    |-> CoverBg(bg), image |-> SetSlideBackground(CoverBg(bg), files),
     white |-> WhiteFill(CoverBg(bg), files), size |-> 66]

\* add_hymn_slide
HymnSlide(text, page_name, verse_num, bg, files) ==
    [kind  |-> "lyric", label |-> page_name, verse |-> verse_num,
     text  |-> text, bg |-> bg, image |-> SetSlideBackground(bg, files),
     white |-> WhiteFill(bg, files), size |-> 60]

\* fragments of one lyric section: verse_text.split('<br>')
Fragments(section) == Split(section.text, BrMarker)

\* `if not slide_text: continue` on the trimmed fragment
KeepFragment_untrimmed(frag) == Truthy(frag)

KeepFragment(frag) == Truthy(Strip(frag))

HymnBegin ==
    /\ kind = "hymn"
    /\ BeginPipeline(IF req.include_cover THEN "cover"
                     ELSE LoopOrExit(1, Len(req.lyrics), req.background_image))

HymnCover_twice ==
    /\ pc = "cover" /\ kind = "hymn"
    /\ AddSlides(<<CoverSlide(bgPath, fs), CoverSlide(bgPath, fs)>>, 1, 1,
                 Len(req.lyrics))
    /\ UNCHANGED j

\* `if include_cover:` add the cover slide and count it
HymnCover ==
    /\ pc = "cover" /\ kind = "hymn"
    /\ AddSlides(<<CoverSlide(bgPath, fs)>>, 1, 1, Len(req.lyrics))
    /\ UNCHANGED j

\* one iteration of the inner loop over the fragments of section i
HymnFragmentStep ==
    /\ pc = "loop" /\ kind = "hymn"
    /\ LET section == req.lyrics[i]
           slides  == Fragments(section)
           frag    == slides[j]
           new     == IF KeepFragment(frag)
                      THEN <<HymnSlide(Strip(frag), section.page_name, i,
                                       bgPath, fs)>>
                      ELSE <<>>
           last    == j = Len(slides)
       IN  /\ AddSlides(new, Len(new), IF last THEN i + 1 ELSE i,
                        Len(req.lyrics))
           /\ j' = IF last THEN 1 ELSE j + 1

\* --------------------------------------------- call-to-worship pipeline
CtwPairs ==
    [Leader : {<<"l">>}, People : {<<>>, <<"p">>}] \cup [Leader : {<<"l">>}]

\* request.text: absent, prefixed lines, prefixed lines in upper case with
\* padding, prefixes with nothing behind them, no prefix, two leader lines
CtwTexts ==
    { <<>>,
      <<"L", "e", "a", "d", "e", "r", ":", " ", "x", "\n",
        "P", "e", "o", "p", "l", "e", ":", " ", "y">>,
      <<" ", "L", "E", "A", "D", "E", "R", ":", "x", " ", "\n",
        "P", "E", "O", "P", "L", "E", ":", " ", "y", " ">>,
      <<"l", "e", "a", "d", "e", "r", ":", "\n",
        "p", "e", "o", "p", "l", "e", ":">>,
      <<"x", "\n", "y">>,
      <<"l", "e", "a", "d", "e", "r", ":", "x", "\n",
        "l", "e", "a", "d", "e", "r", ":", "y">> }

\* pairs given (text unused), or no pairs and a text
CtwRequests ==
    [pairs            : SeqsUpTo(CtwPairs, MaxPairs) \ {<<>>},
     text             : {<<>>},
     background_image : BgInputs]
    \cup
    [pairs            : {<<>>},
     text             : CtwTexts,
     background_image : BgInputs]

LowerChar(c) ==
    CASE c = "L" -> "l" [] c = "E" -> "e" [] c = "A" -> "a" [] c = "D" -> "d"
      [] c = "R" -> "r" [] c = "P" -> "p" [] c = "O" -> "o" [] OTHER -> c

LowerSeq(s) == [k \in 1..Len(s) |-> LowerChar(s[k])]

\* s.split(':', 1)[-1]
RECURSIVE AfterFirstColon(_)
AfterFirstColon(s) ==
    IF s = <<>> THEN <<>>
    ELSE IF Head(s) = ":" THEN Tail(s) ELSE AfterFirstColon(Tail(s))

HasColon(s) == \E k \in 1..Len(s) : s[k] = ":"

\* drop an accidental "Leader:" / "People:" prefix
Sanitize(s, prefix) ==
    IF MatchAt(LowerSeq(Strip(s)), prefix, 1)
    THEN LStrip(IF HasColon(s) THEN AfterFirstColon(s) ELSE s)
    ELSE s

LeaderPrefix == <<"l", "e", "a", "d", "e", "r", ":">>
PeoplePrefix == <<"p", "e", "o", "p", "l", "e", ":">>

\* paragraphs of the content text box: clear() leaves one paragraph (the
\* leader's), add_paragraph() appends the people's; each gets a label run
\* and a text run
CtwContent_leaderOnly(leader_text, people_text) ==
    <<[label |-> "Leader: ", text |-> leader_text]>>

CtwContent(leader_text, people_text) ==
    <<[label |-> "Leader: ", text |-> leader_text],
      [label |-> "People: ", text |-> people_text]>>

\* add_call_to_worship_slide
CtwSlide(leader_text, people_text, bg, files) ==
    [kind   |-> "ctw", label |-> "", verse |-> 0,
     text   |-> Sanitize(leader_text, LeaderPrefix),
     people |-> Sanitize(people_text, PeoplePrefix),
     content |-> CtwContent(Sanitize(leader_text, LeaderPrefix),
                            Sanitize(people_text, PeoplePrefix)),
     bg     |-> bg, image |-> SetSlideBackground(bg, files),
     white  |-> WhiteFill(bg, files), size |-> 50]

\* pair['Leader'], pair['People'] both present
PairComplete(pair) == {"Leader", "People"} \subseteq DOMAIN pair

\* line[7:].strip()
AfterPrefix(line) == Strip(SubSeq(line, 8, Len(line)))

\* `for line in lines:` the last leader line and the last people line win
RECURSIVE ParseLines(_, _, _, _)
ParseLines(lines, n, leader_text, people_text) ==
    IF n > Len(lines) THEN [Leader |-> leader_text, People |-> people_text]
    ELSE LET line == Strip(lines[n])
         IN  IF MatchAt(LowerSeq(line), LeaderPrefix, 1)
             THEN ParseLines(lines, n + 1, AfterPrefix(line), people_text)
             ELSE IF MatchAt(LowerSeq(line), PeoplePrefix, 1)
             THEN ParseLines(lines, n + 1, leader_text, AfterPrefix(line))
             ELSE ParseLines(lines, n + 1, leader_text, people_text)

\* the pair list the handler builds from request.text
ParseText(text) ==
    LET found == ParseLines(Split(text, <<"\n">>), 1, <<>>, <<>>)
    IN  IF Truthy(found.Leader) \/ Truthy(found.People)
        THEN <<found>>
        ELSE <<[Leader |-> text, People |-> <<>>]>>

\* handler, before the output file exists: pairs as given, or parsed from
\* the text; neither given raises HTTPException(400) inside the try
CtwParse ==
    /\ pc = "parse" /\ kind = "ctw"
    /\ req' = IF ~Truthy(req.pairs) /\ Truthy(req.text)
              THEN [req EXCEPT !.pairs = ParseText(req.text)] ELSE req
    /\ exc' = IF ~Truthy(req.pairs) /\ ~Truthy(req.text) THEN BadRequest
              ELSE exc
    /\ pc' = IF ~Truthy(req.pairs) /\ ~Truthy(req.text) THEN "except"
             ELSE "recv"
    /\ UNCHANGED <<kind, direct, fs, tmpCount, outPath, bgPath, resolveCount,
                   prs, slide_count, i, j, events, status, outDeck, saved,
                   unlinkFailed, fontLen, reported, fontPt, detail, bgBytes,
                   images, rPr, hist,
                   shapes, placeholder, procs, target, endRPr>>

CtwBegin ==
    /\ kind = "ctw"
    /\ BeginPipeline(LoopOrExit(1, Len(req.pairs), req.background_image))

\* one iteration of `for pair in pairs_list`
CtwStep ==
    /\ pc = "loop" /\ kind = "ctw"
    /\ PairComplete(req.pairs[i])
    /\ AddSlides(<<CtwSlide(req.pairs[i].Leader, req.pairs[i].People,
                            bgPath, fs)>>, 0, i + 1, Len(req.pairs))
    /\ UNCHANGED j

\* pair['People'] raises KeyError: the exception leaves the pipeline
CtwStepRaises ==
    /\ pc = "loop" /\ kind = "ctw"
    /\ ~PairComplete(req.pairs[i])
    /\ pc' = RaisePc
    /\ status' = IF direct THEN "raised" ELSE status
    /\ exc' = "'People'"
    /\ UNCHANGED <<kind, direct, req, fs, tmpCount, outPath, bgPath,
                   resolveCount, prs, slide_count, i, j, events, outDeck,
                   saved, unlinkFailed, fontLen, reported, fontPt,
                   detail, bgBytes, images, rPr, hist,
                   shapes, placeholder, procs, target, endRPr>>

\* ------------------------------------------------ font-size policy alone
ApplyFontPolicy ==
    /\ pc = "font"
    /\ fontPt' = ContentFontSize(fontLen)
    /\ pc' = "done"
    /\ UNCHANGED <<kind, direct, req, fs, tmpCount, outPath, bgPath,
                   resolveCount, prs, slide_count, i, j, events, status,
                   outDeck, saved, unlinkFailed, fontLen, reported,
                   exc, detail, bgBytes, images, rPr, hist,
                   shapes, placeholder, procs, target, endRPr>>

\* ------------------------------------------------------------ the system
InitCommon ==
    /\ fs = {}
    /\ tmpCount = 0
    /\ bgPath = NoPath
    /\ resolveCount = 0
    /\ prs = <<>>
    /\ slide_count = 0
    /\ i = 1
    /\ j = 1
    /\ events = <<>>
    /\ status = "pending"
    /\ outDeck = <<>>
    /\ saved = FALSE
    /\ unlinkFailed = FALSE
    /\ reported = 0 - 1
    /\ fontPt = 0
    /\ exc = ""
    /\ detail = ""
    /\ bgBytes = <<>>
    /\ images = {}
    /\ rPr = <<>>
    /\ hist = NoCalls
    /\ shapes = <<>>
    /\ endRPr = <<>>

InitScripture ==
    /\ kind = "scripture"
    /\ direct = FALSE
    /\ req \in ScriptureRequests
    /\ pc = "recv"
    /\ outPath = NoPath

InitHymn ==
    /\ kind = "hymn"
    /\ req \in HymnRequests
    /\ direct \in BOOLEAN
    /\ (~direct => req.include_cover)   \* the handler passes no include_cover
    /\ pc = IF direct THEN "call" ELSE "recv"
    /\ outPath = IF direct THEN CallerFile ELSE NoPath

InitCtw ==
    /\ kind = "ctw"
    /\ direct = FALSE
    /\ req \in CtwRequests
    /\ pc = "parse"
    /\ outPath = NoPath

Init ==
    /\ InitCommon
    /\ fontLen = 0
    /\ placeholder = "missing" /\ procs = <<>> /\ target = "ok"
    /\ (InitScripture \/ InitHymn \/ InitCtw)

Next ==
    \/ HandlerBegin
    \/ ScriptureBegin
    \/ ScriptureAltStep
    \/ ScriptureSingleStep
    \/ HymnBegin
    \/ HymnCover
    \/ HymnFragmentStep
    \/ CtwParse
    \/ CtwBegin
    \/ CtwStep
    \/ CtwStepRaises
    \/ Cleanup
    \/ Save
    \/ SaveFails
    \/ HandlerRespond
    \/ HandlerExcept

Spec == Init /\ [][Next]_vars

\* the font-size policy applied to a text of every length 0..MaxTextLen
InitFont ==
    /\ InitCommon
    /\ kind = "font"
    /\ direct = TRUE
    /\ req = [background_image |-> BgNone]
    /\ pc = "font"
    /\ outPath = NoPath
    /\ fontLen \in 0..MaxTextLen
    /\ placeholder = "missing" /\ procs = <<>> /\ target = "ok"

NextFont == ApplyFontPolicy

SpecFont == InitFont /\ [][NextFont]_vars

\* ---------------------------------------------------------- effect layer
\* One run's a:rPr node is the sequence of its children.  A node is
\* [tag, mags, kids]: mags holds the magnitude attribute of the node as
\* the point value passed in and the EMU value written; kids are the
\* descriptors inside an a:effectLst.  Colours and the dist / dir
\* attributes of shadows are left out.
EmuPerPt == 12700

\* point magnitudes handed to the effect layer
PtInputs == {0 - 1, 0, 6}

\* int(pt * 12700)
Emu(pt) == pt * EmuPerPt

\* max(1, int(pt * 12700))
ClampedEmu(pt) == IF Emu(pt) > 1 THEN Emu(pt) ELSE 1

Plain(tag) == [tag |-> tag, mags |-> <<>>, kids |-> <<>>]

Leaf(tag, pt, emu) ==
    [tag |-> tag, mags |-> <<[pt |-> pt, emu |-> emu]>>, kids |-> <<>>]

EffectLst(parts) == [tag |-> "effectLst", mags |-> <<>>, kids |-> parts]

\* rPr.remove(node) for every child whose tag ends with `tag`
Without(children, tag) ==
    SelectSeq(children, LAMBDA n : n.tag # tag)

\* add_text_glow, on the one run of the paragraph
AddTextGlow(children, r) ==
    Append(children, EffectLst(<<Leaf("glow", r, Emu(r))>>))

\* add_text_glow_scheme
AddTextGlowScheme(children, r) ==
    Append(children, EffectLst(<<Leaf("glow", r, ClampedEmu(r))>>))

AddRunGlow_replace(children, r) ==
    Append(Without(children, "effectLst"),
           EffectLst(<<Leaf("glow", r, ClampedEmu(r))>>))

\* add_run_glow
AddRunGlow(children, r) ==
    Append(children, EffectLst(<<Leaf("glow", r, ClampedEmu(r))>>))

\* add_text_highlight / add_run_highlight
AddHighlight(children) == Append(children, Plain("highlight"))

\* add_text_outline / add_run_outline
AddOutline(children, w) == Append(children, Leaf("ln", w, ClampedEmu(w)))

\* add_run_fill
AddRunFill(children) == Append(children, Plain("solidFill"))

\* add_run_outer_shadow
AddRunOuterShadow(children, b) ==
    Append(children, EffectLst(<<Leaf("outerShdw", b, ClampedEmu(b))>>))

\* set_run_effects: the descriptors asked for, glow first
EffectParts(glow, r, inner, outer, b) ==
    (IF glow THEN <<Leaf("glow", r, ClampedEmu(r))>> ELSE <<>>)
    \o (IF inner THEN <<Leaf("innerShdw", b, ClampedEmu(b))>> ELSE <<>>)
    \o (IF outer THEN <<Leaf("outerShdw", b, ClampedEmu(b))>> ELSE <<>>)

SetRunEffects_keep(children, glow, r, inner, outer, b) ==
    IF EffectParts(glow, r, inner, outer, b) # <<>>
    THEN Append(children, EffectLst(EffectParts(glow, r, inner, outer, b)))
    ELSE children

\* set_run_effects: every a:effectLst child is removed; a new one is
\* appended when at least one colour was given
SetRunEffects(children, glow, r, inner, outer, b) ==
    IF EffectParts(glow, r, inner, outer, b) # <<>>
    THEN Append(Without(children, "effectLst"),
                EffectLst(EffectParts(glow, r, inner, outer, b)))
    ELSE Without(children, "effectLst")

SetRunHighlight_front(children) ==
    <<Plain("highlight")>> \o Without(children, "highlight")

\* set_run_highlight: every a:highlight child is removed, a new one appended
SetRunHighlight(children) ==
    Append(Without(children, "highlight"), Plain("highlight"))

Calls == hist.effects + hist.highlight + hist.glow + hist.other

\* one call of a helper that has no try/except around its body.  On a
\* well-formed target children becomes new and the history counts the call
\* under field f, keeps which of set_run_effects and set_run_highlight ran
\* last and whether the latest set_run_effects appended a list.  On a
\* target without the node the helper dereferences (run._r, paragraph.runs)
\* the AttributeError leaves the helper.
ApplyToRun(new, f, last, parts) ==
    /\ pc = "run"
    /\ Calls < MaxOps
    /\ rPr' = IF target = "ok" THEN new ELSE rPr
    /\ hist' = IF target = "ok"
               THEN [hist EXCEPT ![f] = @ + 1, !.last = last, !.parts = parts]
               ELSE hist
    /\ exc' = IF target = "ok" THEN exc ELSE "AttributeError"
    /\ status' = IF target = "ok" THEN status ELSE "raised"
    /\ pc' = IF target = "ok" THEN pc ELSE "done"
    /\ UNCHANGED <<kind, direct, req, fs, tmpCount, outPath, bgPath,
                   resolveCount, prs, slide_count, i, j, events,
                   outDeck, saved, unlinkFailed, fontLen, reported, fontPt,
                   detail, bgBytes, images,
                   shapes, placeholder, procs, target, endRPr>>

\* add_end_paragraph_glow_and_highlight on the paragraph's endParaRPr: the
\* whole body is inside try / except Exception: pass
AddEndParagraphEffects(children, r, highlight) ==
    IF target = "ok"
    THEN children \o <<EffectLst(<<Leaf("glow", r, ClampedEmu(r))>>)>>
                  \o (IF highlight THEN <<Plain("highlight")>> ELSE <<>>)
    ELSE children

CallAddEndParagraphEffects ==
    /\ pc = "run"
    /\ Calls < MaxOps
    /\ \E r \in PtInputs, highlight \in BOOLEAN :
          endRPr' = AddEndParagraphEffects(endRPr, r, highlight)
    /\ hist' = [hist EXCEPT !.other = @ + 1]
    /\ UNCHANGED <<kind, direct, req, pc, fs, tmpCount, outPath, bgPath,
                   resolveCount, prs, slide_count, i, j, events, status,
                   outDeck, saved, unlinkFailed, fontLen, reported, fontPt,
                   exc, detail, bgBytes, images, rPr,
                   shapes, placeholder, procs, target>>

CallAddTextGlow ==
    \E r \in PtInputs : ApplyToRun(AddTextGlow(rPr, r), "glow", hist.last, hist.parts)

CallAddTextGlowScheme ==
    \E r \in PtInputs : ApplyToRun(AddTextGlowScheme(rPr, r), "glow", hist.last, hist.parts)

CallAddRunGlow ==
    \E r \in PtInputs : ApplyToRun(AddRunGlow(rPr, r), "glow", hist.last, hist.parts)

CallAddHighlight == ApplyToRun(AddHighlight(rPr), "other", hist.last, hist.parts)

CallAddOutline ==
    \E w \in PtInputs : ApplyToRun(AddOutline(rPr, w), "other", hist.last, hist.parts)

CallAddRunFill == ApplyToRun(AddRunFill(rPr), "other", hist.last, hist.parts)

CallAddRunOuterShadow ==
    \E b \in PtInputs : ApplyToRun(AddRunOuterShadow(rPr, b), "other", hist.last, hist.parts)

CallSetRunEffects ==
    \E glow, inner, outer \in BOOLEAN, r, b \in PtInputs :
        ApplyToRun(SetRunEffects(rPr, glow, r, inner, outer, b),
                   "effects", "effects", glow \/ inner \/ outer)

CallSetRunHighlight ==
    ApplyToRun(SetRunHighlight(rPr), "highlight", "highlight", hist.parts)

InitRun ==
    /\ InitCommon
    /\ kind = "run"
    /\ direct = TRUE
    /\ req = [background_image |-> BgNone]
    /\ pc = "run"
    /\ outPath = NoPath
    /\ fontLen = 0
    /\ placeholder = "missing" /\ procs = <<>>
    /\ target \in {"ok", "malformed"}

NextRun ==
    \/ CallAddTextGlow
    \/ CallAddTextGlowScheme
    \/ CallAddRunGlow
    \/ CallAddHighlight
    \/ CallAddOutline
    \/ CallAddRunFill
    \/ CallAddRunOuterShadow
    \/ CallSetRunEffects
    \/ CallSetRunHighlight
    \/ CallAddEndParagraphEffects

SpecRun == InitRun /\ [][NextRun]_vars

\* ------------------------------------------------ set_slide_background alone
\* paths a caller may pass; each is absent from the disk, a file the
\* picture loader rejects, or a picture
SlidePaths == {1, 2}

\* a blank slide after set_slide_background(slide, path)
BlankSlide(path, files) ==
    [kind  |-> "blank", bg |-> path, ret |-> SetSlideBackground(path, files),
     image |-> PictureAdded(path, files), white |-> WhiteFill(path, files)]

AddBlankSlide ==
    /\ pc = "slide"
    /\ Len(prs) < MaxBgSlides
    /\ \E path \in {NoPath} \cup SlidePaths :
          prs' = Append(prs, BlankSlide(path, fs))
    /\ UNCHANGED <<kind, direct, req, pc, fs, tmpCount, outPath, bgPath,
                   resolveCount, slide_count, i, j, events, status, outDeck,
                   saved, unlinkFailed, fontLen, reported, fontPt, exc,
                   detail, bgBytes, images, rPr, hist,
                   shapes, placeholder, procs, target, endRPr>>

InitSlide ==
    /\ kind = "slide"
    /\ direct = TRUE
    /\ req = [background_image |-> BgNone]
    /\ pc = "slide"
    /\ fs \in SUBSET SlidePaths
    /\ images \in SUBSET fs
    /\ tmpCount = 0 /\ outPath = NoPath /\ bgPath = NoPath
    /\ resolveCount = 0 /\ prs = <<>> /\ slide_count = 0
    /\ i = 1 /\ j = 1 /\ events = <<>> /\ status = "pending"
    /\ outDeck = <<>> /\ saved = FALSE /\ unlinkFailed = FALSE
    /\ fontLen = 0 /\ reported = 0 - 1 /\ fontPt = 0
    /\ exc = "" /\ detail = "" /\ bgBytes = <<>>
    /\ rPr = <<>> /\ hist = NoCalls
    /\ shapes = <<>> /\ placeholder = "missing" /\ procs = <<>>
    /\ target = "ok" /\ endRPr = <<>>

NextSlide == AddBlankSlide

SpecSlide == InitSlide /\ [][NextSlide]_vars

\* process_background_image called on its own with every string of length
\* 0..MaxB64Len over the base64 alphabet, ',' and ':'
B64Inputs == SeqsUpTo(B64Alphabet \cup {",", ":"}, MaxB64Len)

ResolveBackground ==
    /\ pc = "b64"
    /\ LET r == ProcessBackgroundImage(req.background_image, tmpCount)
       IN  /\ bgPath' = r.path
           /\ bgBytes' = r.bytes
           /\ fs' = IF r.path # NoPath THEN fs \cup {r.path} ELSE fs
           /\ tmpCount' = IF r.path # NoPath THEN tmpCount + 1 ELSE tmpCount
           /\ exc' = IF r.raised THEN "b64decode" ELSE exc
           /\ status' = IF r.raised THEN "raised" ELSE "returned"
    /\ resolveCount' = resolveCount + 1
    /\ pc' = "done"
    /\ UNCHANGED <<kind, direct, req, outPath, prs, slide_count, i, j, events,
                   outDeck, saved, unlinkFailed, fontLen, reported, fontPt,
                   detail, images, rPr, hist,
                   shapes, placeholder, procs, target, endRPr>>

InitB64 ==
    /\ InitCommon
    /\ kind = "b64"
    /\ direct = TRUE
    /\ req \in [background_image : B64Inputs]
    /\ pc = "b64"
    /\ outPath = NoPath
    /\ fontLen = 0
    /\ placeholder = "missing" /\ procs = <<>> /\ target = "ok"

NextB64 == ResolveBackground

SpecB64 == InitB64 /\ [][NextB64]_vars

\* ------------------------------------------------------ one slide, built
\* The builders of the three pipelines, one slide at a time: the slide
\* comes from add_slide on the blank layout and has no shape; the steps
\* of the builder then add shapes in the order of the code.  The
\* environment fixes whether the background path names a file and a
\* picture, and whether the decorative placeholder file is absent, a
\* picture, or a file the picture loader rejects.  (In Spec the
\* placeholder file is absent.)
MaxLines == 2        \* most lines of the text put on the slide
MaxInfoLines == 2    \* most information lines of the hymn cover

Builders == {"scripture", "cover", "lyric", "ctw"}

\* the text as its lines, each empty or not
BuildTexts == UNION {[1..n -> {"", "a"}] : n \in 1..MaxLines}

Picture(role) == [kind |-> "picture", role |-> role, paras |-> <<>>]

TextBox(role, paras) == [kind |-> "textbox", role |-> role, paras |-> paras]

\* a paragraph: the rPr children of each of its runs, and of endParaRPr
Para(runs, e) == [runs |-> runs, endRPr |-> e]

\* paragraph.text = "\n".join(lines): every run is dropped, each line
\* becomes a run unless it is empty, line breaks go between
TextRuns(lines) ==
    [k \in 1..Len(SelectSeq(lines, LAMBDA l : l # "")) |-> <<>>]

GlowParagraph_twice(runs, r) ==
    [k \in DOMAIN runs |-> AddTextGlow(AddTextGlow(runs[k], r), r)]

\* add_text_glow(paragraph, r): for run in paragraph.runs
GlowParagraph(runs, r) ==
    [k \in DOMAIN runs |-> AddTextGlow(runs[k], r)]

\* the title text box of each builder; label is the translation label
\* (scripture) or page name (lyric) when given
TitleBox(b, label) ==
    LET one == Para(GlowParagraph(TextRuns(<<"a">>), 6), <<>>)
    IN  TextBox("title",
                IF b \in {"scripture", "lyric"} /\ label
                THEN <<one, one>> ELSE <<one>>)

\* a People run: fill, set_run_effects, outline, set_run_highlight
PeopleRun(r) ==
    SetRunHighlight(AddOutline(
        SetRunEffects(AddRunFill(<<>>), TRUE, r, FALSE, FALSE, 0), 1))

\* the content text box: the verse text as one paragraph (scripture), one
\* paragraph per information line (cover) or lyric line (lyric), the
\* Leader and People paragraphs (call to worship)
ContentBox(b, text, info) ==
    TextBox("content",
        CASE b = "scripture" ->
               <<Para(GlowParagraph(TextRuns(text), 6), <<>>)>>
          [] b = "cover" ->
               [k \in 1..info |-> Para(GlowParagraph(<<<<>>>>, 4), <<>>)]
          [] b = "lyric" ->
               [k \in 1..Len(text) |->
                   Para(GlowParagraph(TextRuns(<<text[k]>>), 6), <<>>)]
          [] OTHER ->
               <<Para(<<AddRunGlow(<<>>, 6), AddRunGlow(<<>>, 10)>>, <<>>),
                 Para(<<PeopleRun(6), PeopleRun(10)>>,
                      AddEndParagraphEffects(<<>>, 10, TRUE))>>)

StepAfter_placeholderFirst(b, step) ==
    CASE step = "start"       -> "placeholder"
      [] step = "placeholder" -> "bg"
      [] step = "bg"          -> "title"
      [] step = "title"       -> "content"
      [] OTHER                -> "built"

\* the order of the builder's steps; add_hymn_cover_slide has no
\* placeholder image
StepAfter(b, step) ==
    CASE step = "start"       -> "bg"
      [] step = "bg"          -> IF b = "cover" THEN "title" ELSE "placeholder"
      [] step = "placeholder" -> "title"
      [] step = "title"       -> "content"
      [] OTHER                -> "built"

BuildBackground ==
    /\ pc = "bg"
    /\ shapes' = IF SetSlideBackground(bgPath, fs)
                 THEN Append(shapes, Picture("background")) ELSE shapes
    /\ events' = Append(events, "background")
    /\ pc' = StepAfter(req.builder, pc)
    /\ UNCHANGED <<kind, direct, req, fs, tmpCount, outPath, bgPath,
                   resolveCount, prs, slide_count, i, j, status, outDeck,
                   saved, unlinkFailed, fontLen, reported, fontPt, exc,
                   detail, bgBytes, images, rPr, hist,
                   placeholder, procs, target, endRPr>>

\* `if os.path.exists(placeholder_path): slide.shapes.add_picture(...)`,
\* with no try around it
BuildPlaceholder ==
    /\ pc = "placeholder"
    /\ shapes' = IF req.builder # "cover" /\ placeholder = "ok"
                 THEN Append(shapes, Picture("placeholder")) ELSE shapes
    /\ events' = Append(events, "placeholder")
    /\ IF req.builder # "cover" /\ placeholder = "broken"
       THEN exc' = "UnidentifiedImageError" /\ status' = "raised"
            /\ pc' = "raised"
       ELSE exc' = exc /\ status' = status
            /\ pc' = StepAfter(req.builder, pc)
    /\ UNCHANGED <<kind, direct, req, fs, tmpCount, outPath, bgPath,
                   resolveCount, prs, slide_count, i, j, outDeck,
                   saved, unlinkFailed, fontLen, reported, fontPt,
                   detail, bgBytes, images, rPr, hist,
                   placeholder, procs, target, endRPr>>

BuildTitle ==
    /\ pc = "title"
    /\ shapes' = Append(shapes, TitleBox(req.builder, req.label))
    /\ events' = Append(events, "title")
    /\ pc' = StepAfter(req.builder, pc)
    /\ UNCHANGED <<kind, direct, req, fs, tmpCount, outPath, bgPath,
                   resolveCount, prs, slide_count, i, j, status, outDeck,
                   saved, unlinkFailed, fontLen, reported, fontPt, exc,
                   detail, bgBytes, images, rPr, hist,
                   placeholder, procs, target, endRPr>>

BuildContent ==
    /\ pc = "content"
    /\ shapes' = Append(shapes, ContentBox(req.builder, req.text, req.info))
    /\ events' = Append(events, "content")
    /\ pc' = StepAfter(req.builder, pc)
    /\ status' = "built"
    /\ UNCHANGED <<kind, direct, req, fs, tmpCount, outPath, bgPath,
                   resolveCount, prs, slide_count, i, j, outDeck,
                   saved, unlinkFailed, fontLen, reported, fontPt, exc,
                   detail, bgBytes, images, rPr, hist,
                   placeholder, procs, target, endRPr>>

InitBuild ==
    /\ kind = "build"
    /\ direct = TRUE
    /\ req \in [builder : Builders, label : BOOLEAN, text : BuildTexts,
                info : 1..MaxInfoLines]
    /\ pc = StepAfter(req.builder, "start")
    /\ bgPath \in {NoPath, 1}
    /\ fs \in SUBSET {1}
    /\ images \in SUBSET fs
    /\ placeholder \in {"missing", "ok", "broken"}
    /\ tmpCount = 0 /\ outPath = NoPath
    /\ resolveCount = 0 /\ prs = <<>> /\ slide_count = 0
    /\ i = 1 /\ j = 1 /\ events = <<>> /\ status = "pending"
    /\ outDeck = <<>> /\ saved = FALSE /\ unlinkFailed = FALSE
    /\ fontLen = 0 /\ reported = 0 - 1 /\ fontPt = 0
    /\ exc = "" /\ detail = "" /\ bgBytes = <<>>
    /\ rPr = <<>> /\ hist = NoCalls
    /\ shapes = <<>> /\ procs = <<>>
    /\ target = "ok" /\ endRPr = <<>>

NextBuild ==
    \/ BuildBackground
    \/ BuildPlaceholder
    \/ BuildTitle
    \/ BuildContent

SpecBuild == InitBuild /\ [][NextBuild]_vars

\* ---------------------------------------------------- concurrent requests
\* Several requests in flight at once (worker processes or threads of the
\* host), each running handler and pipeline in program order and sharing
\* only the temp directory fs.  procs[p] is request p: its position, whether
\* it carries a background image, the two temp paths it was given, and
\* whether the files were there when it read them.
MaxRequests == 2     \* requests in flight
MaxNames == 4        \* names the temp-name allocator draws from

Names == 1..MaxNames

FreshNames_any(files) == Names

\* tempfile.NamedTemporaryFile(delete=False): the name is created with
\* O_CREAT|O_EXCL and drawn again while it exists, so the name returned
\* is one that was not on the disk
FreshNames(files) == Names \ files

\* handler: output_path = create_temp_file(suffix='.pptx')
ConcBegin(p) ==
    /\ procs[p].pc = "recv"
    /\ \E n \in FreshNames(fs) :
          /\ fs' = fs \cup {n}
          /\ procs' = [procs EXCEPT ![p].pc = "resolve", ![p].outPath = n]
    /\ UNCHANGED <<kind, direct, req, pc, tmpCount, outPath, bgPath,
                   resolveCount, prs, slide_count, i, j, events, status,
                   outDeck, saved, unlinkFailed, fontLen, reported, fontPt,
                   exc, detail, bgBytes, images, rPr, hist,
                   shapes, placeholder, target, endRPr>>

\* process_background_image
ConcResolve(p) ==
    /\ procs[p].pc = "resolve"
    /\ IF procs[p].bg
       THEN \E n \in FreshNames(fs) :
               /\ fs' = fs \cup {n}
               /\ procs' = [procs EXCEPT ![p].pc = "build", ![p].bgPath = n]
       ELSE /\ fs' = fs
            /\ procs' = [procs EXCEPT ![p].pc = "build"]
    /\ UNCHANGED <<kind, direct, req, pc, tmpCount, outPath, bgPath,
                   resolveCount, prs, slide_count, i, j, events, status,
                   outDeck, saved, unlinkFailed, fontLen, reported, fontPt,
                   exc, detail, bgBytes, images, rPr, hist,
                   shapes, placeholder, target, endRPr>>

\* the slide loop: set_slide_background reads the background file
ConcBuild(p) ==
    /\ procs[p].pc = "build"
    /\ procs' = [procs EXCEPT
                   ![p].pc = IF procs[p].bg THEN "cleanup" ELSE "save",
                   ![p].bgSeen = (procs[p].bgPath \in fs)]
    /\ UNCHANGED <<kind, direct, req, pc, fs, tmpCount, outPath, bgPath,
                   resolveCount, prs, slide_count, i, j, events, status,
                   outDeck, saved, unlinkFailed, fontLen, reported, fontPt,
                   exc, detail, bgBytes, images, rPr, hist,
                   shapes, placeholder, target, endRPr>>

\* `if background_image: cleanup_temp_file(background_image_path)`
ConcCleanup(p) ==
    /\ procs[p].pc = "cleanup"
    /\ \E unlinkOk \in BOOLEAN :
          fs' = CleanupTempFile(procs[p].bgPath, fs, unlinkOk)
    /\ procs' = [procs EXCEPT ![p].pc = "save"]
    /\ UNCHANGED <<kind, direct, req, pc, tmpCount, outPath, bgPath,
                   resolveCount, prs, slide_count, i, j, events, status,
                   outDeck, saved, unlinkFailed, fontLen, reported, fontPt,
                   exc, detail, bgBytes, images, rPr, hist,
                   shapes, placeholder, target, endRPr>>

\* save_presentation(prs, output_file)
ConcSave(p) ==
    /\ procs[p].pc = "save"
    /\ fs' = fs \cup {procs[p].outPath}
    /\ procs' = [procs EXCEPT ![p].pc = "respond"]
    /\ UNCHANGED <<kind, direct, req, pc, tmpCount, outPath, bgPath,
                   resolveCount, prs, slide_count, i, j, events, status,
                   outDeck, saved, unlinkFailed, fontLen, reported, fontPt,
                   exc, detail, bgBytes, images, rPr, hist,
                   shapes, placeholder, target, endRPr>>

\* handler: return FileResponse(path=output_path, ...)
ConcRespond(p) ==
    /\ procs[p].pc = "respond"
    /\ procs' = [procs EXCEPT ![p].pc = "done",
                              ![p].served = (procs[p].outPath \in fs)]
    /\ UNCHANGED <<kind, direct, req, pc, fs, tmpCount, outPath, bgPath,
                   resolveCount, prs, slide_count, i, j, events, status,
                   outDeck, saved, unlinkFailed, fontLen, reported, fontPt,
                   exc, detail, bgBytes, images, rPr, hist,
                   shapes, placeholder, target, endRPr>>

InitConc ==
    /\ InitCommon
    /\ kind = "conc"
    /\ direct = FALSE
    /\ req = [background_image |-> BgNone]
    /\ pc = "conc"
    /\ outPath = NoPath
    /\ fontLen = 0
    /\ placeholder = "missing" /\ target = "ok"
    /\ procs \in [1..MaxRequests ->
                    [pc : {"recv"}, bg : BOOLEAN, bgPath : {NoPath},
                     outPath : {NoPath}, bgSeen : {FALSE}, served : {FALSE}]]

NextConc ==
    \E p \in 1..MaxRequests :
        \/ ConcBegin(p)
        \/ ConcResolve(p)
        \/ ConcBuild(p)
        \/ ConcCleanup(p)
        \/ ConcSave(p)
        \/ ConcRespond(p)

SpecConc == InitConc /\ [][NextConc]_vars

\* ------------------------------------------------ hymn payload shapes
\* The hymn handler from the payload on: the request is flat or nested
\* under 'hymn', carries a 'lyrics' array, a legacy 'verses' array, both
\* or neither (lyricsIn and versesIn are the values under the keys that
\* are present).  No background image is sent.
MaxLegacy == 2       \* most entries of a legacy 'verses' array

\* an entry of 'verses': a dict, with or without 'page_name', or a plain
\* string; text is the dict's 'text' ('' when missing) or the string
VerseInputs ==
    {v \in [dict : BOOLEAN, named : BOOLEAN, page_name : {"Refrain"},
            text : {<<>>, <<"a">>}] : v.named => v.dict}

ShapeRequests ==
    {r \in [shape : {"flat", "nested"},
            hasLyrics : BOOLEAN,
            lyricsIn  : SeqsUpTo([page_name : {"Verse"},
                                  text : {<<>>, <<"a">>}], MaxSections),
            hasVerses : BOOLEAN,
            versesIn  : SeqsUpTo(VerseInputs, MaxLegacy),
            lyrics    : {<<>>},
            include_cover : {TRUE},
            background_image : {BgNone}] :
        /\ ~r.hasLyrics => r.lyricsIn = <<>>
        /\ ~r.hasVerses => r.versesIn = <<>>}

\* convert_verses_to_lyrics
ConvertVersesToLyrics(verses) ==
    [k \in 1..Len(verses) |->
        [page_name |-> IF verses[k].dict /\ verses[k].named
                       THEN verses[k].page_name
                       ELSE "Verse " \o ToString(k),
         text      |-> verses[k].text]]

\* hymn_info['lyrics']: hymn_request.get('lyrics', []) in the nested shape,
\* data.get('lyrics', convert_verses_to_lyrics(data.get('verses', []))) in
\* the flat one
HymnInfoLyrics(r) ==
    IF r.shape = "nested"
    THEN (IF r.hasLyrics THEN r.lyricsIn ELSE <<>>)
    ELSE IF r.hasLyrics THEN r.lyricsIn
    ELSE IF r.hasVerses THEN ConvertVersesToLyrics(r.versesIn)
    ELSE <<>>

\* handler: hymn_info is built from the payload
HymnExtract ==
    /\ pc = "extract"
    /\ req' = [req EXCEPT !.lyrics = HymnInfoLyrics(req)]
    /\ pc' = "recv"
    /\ UNCHANGED <<kind, direct, fs, tmpCount, outPath, bgPath,
                   resolveCount, prs, slide_count, i, j, events, status,
                   outDeck, saved, unlinkFailed, fontLen, reported, fontPt,
                   exc, detail, bgBytes, images, rPr, hist,
                   shapes, placeholder, procs, target, endRPr>>

InitShape ==
    /\ InitCommon
    /\ kind = "hymn"
    /\ direct = FALSE
    /\ req \in ShapeRequests
    /\ pc = "extract"
    /\ outPath = NoPath
    /\ fontLen = 0
    /\ placeholder = "missing" /\ procs = <<>> /\ target = "ok"

NextShape ==
    \/ HymnExtract
    \/ HandlerBegin
    \/ HymnBegin
    \/ HymnCover
    \/ HymnFragmentStep
    \/ Save
    \/ SaveFails
    \/ HandlerRespond
    \/ HandlerExcept

SpecShape == InitShape /\ [][NextShape]_vars

\* ================================================================ claims
\* a text with at least one non-whitespace character
NonBlank(t) == \E k \in 1..Len(t) : t[k] \notin Whitespace

\* the slide loop of the pipeline has run to its end
BuildOver == pc \in {"cleanup", "save", "respond", "done"} /\ status # "500"

SingleMode == kind = "scripture" /\ ~Truthy(req.verses_alt)
CombinedMode == kind = "scripture" /\ Truthy(req.verses_alt)

\* verses of the list whose text is not blank, in list order
NonBlankVerses(verses) ==
    LET Keep(v) == NonBlank(v.text) IN SelectSeq(verses, Keep)

\* C1: without an alternate translation the deck has one slide per verse
\* whose text is non-empty after trimming, in input order: while the loop
\* runs the deck matches the verses already visited, at its end all of them.
C1_OneSlidePerNonBlankVerse ==
    (SingleMode /\ pc \in {"loop", "cleanup", "save", "respond", "done"}
                /\ status # "500") =>
        LET seen == IF pc = "loop" THEN SubSeq(req.verses, 1, i - 1)
                    ELSE req.verses
            want == NonBlankVerses(seen)
        IN  /\ Len(prs) = Len(want)
            /\ slide_count = Len(want)
            /\ \A k \in 1..Len(want) : prs[k].verse = want[k].verse

C1_Witness ==
    /\ SingleMode /\ pc = "done" /\ status = "200"
    /\ Len(req.verses) = 2
    /\ Len(prs) = 1
    /\ ~NonBlank(req.verses[1].text)

\* C2: with an alternate translation the slides are in ascending
\* verse-number order, and the primary slide of a verse number is
\* immediately followed by the alternate slide of that verse number.
C2_AscendingPrimaryThenAlt ==
    CombinedMode =>
        /\ \A a, b \in 1..Len(prs) : a < b => prs[a].verse <= prs[b].verse
        /\ \A a, b \in 1..Len(prs) :
              (prs[a].label = "NRSVUE" /\ prs[b].label = "TMB"
                 /\ prs[a].verse = prs[b].verse) => b = a + 1

C2_Witness ==
    /\ CombinedMode /\ pc = "done" /\ status = "200"
    /\ Len(req.verses) = 2 /\ req.verses[1].verse = 2 /\ req.verses[2].verse = 1
    /\ Len(prs) = 4
    /\ prs[1].label = "NRSVUE" /\ prs[2].label = "TMB" /\ prs[1].verse = 1

\* verse numbers of a verse list
Numbers(list) == {list[k].verse : k \in 1..Len(list)}

\* slides of verse number vn carrying translation label lab
SlidesOf(vn, lab) ==
    {k \in 1..Len(prs) : prs[k].verse = vn /\ prs[k].label = lab}

\* text of the last entry of the list that carries verse number vn
LastText(list, vn) ==
    LET K == {k \in 1..Len(list) : list[k].verse = vn}
    IN  list[CHOOSE k \in K : \A h \in K : h <= k].text

\* C3 (as claimed): in combined mode every verse number of the primary list
\* gets exactly two slides, primary then alternate.  Stated for the verse
\* numbers the claim is at its strongest for: non-zero, with a non-blank
\* primary text.
C3_TwoSlidesPerPrimaryVerse ==
    (CombinedMode /\ pc = "done" /\ status = "200") =>
        \A vn \in Numbers(req.verses) :
            (vn # 0 /\ NonBlank(LastText(req.verses, vn))) =>
                /\ Cardinality(SlidesOf(vn, "NRSVUE")) = 1
                /\ Cardinality(SlidesOf(vn, "TMB")) = 1

\* C3 (amended): in combined mode a non-zero verse number of the primary
\* list gets a primary slide exactly when its (last) primary text is
\* non-blank and an alternate slide exactly when verses_alt has that number
\* with a non-blank (last) text: two slides only when both texts are
\* non-blank; verse number 0 gets none.
C3_SlidePerNonBlankTranslation ==
    (CombinedMode /\ pc = "done" /\ status = "200") =>
        \A vn \in Numbers(req.verses) :
            /\ Cardinality(SlidesOf(vn, "NRSVUE")) =
                 (IF vn # 0 /\ NonBlank(LastText(req.verses, vn)) THEN 1 ELSE 0)
            /\ Cardinality(SlidesOf(vn, "TMB")) =
                 (IF vn # 0 /\ vn \in Numbers(req.verses_alt)
                       /\ NonBlank(LastText(req.verses_alt, vn)) THEN 1 ELSE 0)

C3_Witness ==
    /\ CombinedMode /\ pc = "done" /\ status = "200"
    /\ \E vn \in Numbers(req.verses) :
          /\ Cardinality(SlidesOf(vn, "NRSVUE")) = 1
          /\ Cardinality(SlidesOf(vn, "TMB")) = 0
    /\ \E vn \in Numbers(req.verses) :
          /\ Cardinality(SlidesOf(vn, "NRSVUE")) = 1
          /\ Cardinality(SlidesOf(vn, "TMB")) = 1

\* C4: in combined mode a verse number that is only in verses_alt has no
\* slide in the deck, at any time.
C4_AltOnlyVerseHasNoSlide ==
    CombinedMode =>
        \A vn \in Numbers(req.verses_alt) \ Numbers(req.verses) :
            \A k \in 1..Len(prs) : prs[k].verse # vn

C4_Witness ==
    /\ CombinedMode /\ pc = "done" /\ status = "200"
    /\ Len(prs) >= 1
    /\ \E k \in 1..Len(req.verses_alt) :
          /\ req.verses_alt[k].verse \notin Numbers(req.verses)
          /\ req.verses_alt[k].verse # 0
          /\ NonBlank(req.verses_alt[k].text)

\* number of elements of seq that satisfy Test
CountLyric == Cardinality({k \in 1..Len(prs) : prs[k].kind = "lyric"})
CountCover == Cardinality({k \in 1..Len(prs) : prs[k].kind = "cover"})

\* k_i: fragments of a section text that are non-blank
NonBlankFragments(text) ==
    LET fr == Split(text, BrMarker)
    IN  Cardinality({k \in 1..Len(fr) : NonBlank(fr[k])})

RECURSIVE SumFragments(_, _)
SumFragments(lyrics, n) ==
    IF n = 0 THEN 0
    ELSE SumFragments(lyrics, n - 1) + NonBlankFragments(lyrics[n].text)

\* C5: once the hymn loop is over the deck has sum(k_i) lyric slides, and
\* one cover slide exactly when include_cover is true; slide_count counts
\* both.
C5_HymnSlideCount ==
    (kind = "hymn" /\ BuildOver) =>
        /\ CountLyric = SumFragments(req.lyrics, Len(req.lyrics))
        /\ CountCover = (IF req.include_cover THEN 1 ELSE 0)
        /\ Len(prs) = CountLyric + CountCover
        /\ slide_count = Len(prs)

C5_Witness ==
    /\ kind = "hymn" /\ pc = "done" /\ status = "200"
    /\ req.include_cover
    /\ Len(req.lyrics) = 2
    /\ CountLyric = 3 /\ CountCover = 1
    /\ \E n \in 1..2 :
          Len(Split(req.lyrics[n].text, BrMarker)) >
              NonBlankFragments(req.lyrics[n].text)

\* C6 (as claimed): lower-inclusive tiers: below 100 gives 58, [100,200)
\* gives 52, [200,300) gives 44, 300 and above gives 36.
C6_LowerInclusiveTiers ==
    fontPt # 0 =>
        /\ (fontLen < 100 => fontPt = 58)
        /\ (fontLen >= 100 /\ fontLen < 200 => fontPt = 52)
        /\ (fontLen >= 200 /\ fontLen < 300 => fontPt = 44)
        /\ (fontLen >= 300 => fontPt = 36)

\* C6 (amended): the size depends on the length alone, with upper-inclusive
\* tiers: 0..100 gives 58, 101..200 gives 52, 201..300 gives 44, 301 and
\* above gives 36.
C6_UpperInclusiveTiers ==
    fontPt # 0 =>
        /\ (fontLen \in 0..100 => fontPt = 58)
        /\ (fontLen \in 101..200 => fontPt = 52)
        /\ (fontLen \in 201..300 => fontPt = 44)
        /\ (fontLen >= 301 => fontPt = 36)

C6_Witness == pc = "done" /\ fontLen = 300 /\ fontPt = 44

\* positions of an event in the history
At(e) == {k \in 1..Len(events) : events[k] = e}

C8_BackgroundFileRemoved ==
    (pc = "done" /\ bgPath # NoPath /\ ~unlinkFailed) => bgPath \notin fs

\* C9: the output temp file a handler created is removed when the handler
\* has finished, on the success path and on the failure path.
C9_OutputFileRemoved ==
    (pc = "done" /\ ~direct) => outPath \notin fs

\* C10: the background image is resolved at most once per invocation, into
\* at most one temp file, and every slide of the deck, the hymn cover
\* included, was given that same path as its background.
C10_OneBackgroundForAllSlides ==
    /\ resolveCount <= 1
    /\ tmpCount <= resolveCount + (IF direct THEN 0 ELSE 1)
    /\ \A k \in 1..Len(prs) : prs[k].bg = bgPath

C10_Witness ==
    /\ kind = "hymn" /\ pc = "done" /\ status = "200"
    /\ resolveCount = 1 /\ bgPath # NoPath
    /\ Len(prs) >= 3
    /\ prs[1].kind = "cover" /\ prs[1].bg = bgPath /\ prs[1].image

\* the payload of a background string decodes
Decodable(b) == B64Decode(StripHeader(b)).ok

\* C11: process_background_image never raises.  For a payload base64 cannot
\* decode no exception leaves the resolver, no path is returned and no temp
\* file is written; the pipeline goes on and every slide it adds has the
\* solid white fill and no picture.
C11_UndecodableFallsBackToWhite ==
    /\ exc # "b64decode"
    /\ (kind \in {"scripture", "hymn", "ctw"} /\ ~Decodable(req.background_image)
            /\ pc \notin {"parse", "recv", "call"}) =>
           /\ bgPath = NoPath
           /\ bgBytes = <<>>
           /\ fs \subseteq {outPath}
           /\ \A k \in 1..Len(prs) : prs[k].white /\ ~prs[k].image
           /\ (pc = "except" => exc \in {"OSError", "'People'", BadRequest})

C11_Witness ==
    /\ req.background_image = BgCorrupt
    /\ pc = "done" /\ status = "200"
    /\ Len(outDeck) = 2 /\ outDeck[2].white

\* everything after the first comma of s
AfterHeaderComma(s) ==
    LET k == CHOOSE x \in 1..Len(s) :
                 s[x] = "," /\ \A y \in 1..(x - 1) : s[y] # ","
    IN  SubSeq(s, k + 1, Len(s))

HasComma(s) == \E k \in 1..Len(s) : s[k] = ","

\* C12: the resolver decodes exactly the payload that follows the data-URL
\* header: for 'header,payload' the bytes written are the base64 decoding of
\* everything after the header's comma, and without a header the whole
\* string is decoded.
C12_DecodesEverythingAfterHeader ==
    (kind = "b64" /\ pc = "done" /\ Truthy(req.background_image)) =>
        LET data    == req.background_image
            payload == IF HasComma(data) THEN AfterHeaderComma(data) ELSE data
            d       == B64Decode(payload)
        IN  /\ (bgPath # NoPath) = d.ok
            /\ bgBytes = d.bytes

\* C13: in every handler an exception raised while the deck is built or
\* written (a failing save included) becomes a 500 response whose detail is
\* the exception's message, and the handlers produce no other error status.
C13_ExceptionsBecome500 ==
    /\ status \in {"pending", "200", "500", "returned", "raised"}
    /\ (~direct /\ pc = "done" /\ exc # "") =>
           (status = "500" /\ detail = exc)
    /\ (status = "500") => (exc # "" /\ detail = exc)
    /\ (status = "200") => exc = ""

C13_Witness ==
    /\ kind = "hymn" /\ ~direct
    /\ status = "500" /\ detail = "OSError" /\ Len(prs) > 0

\* C14: the call-to-worship pipeline adds exactly one slide per input pair,
\* in input order, and the content text box of each slide has exactly two
\* paragraphs: the Leader paragraph, then the People paragraph.
C14_OneSlidePerPairTwoParagraphs ==
    (kind = "ctw" /\ exc = ""
       /\ pc \in {"loop", "cleanup", "save", "respond", "done"}) =>
        LET n == IF pc = "loop" THEN i - 1 ELSE Len(req.pairs)
        IN  /\ Len(prs) = n
            /\ \A k \in 1..n :
                  /\ Len(prs[k].content) = 2
                  /\ prs[k].content[1] =
                        [label |-> "Leader: ",
                         text  |-> Sanitize(req.pairs[k].Leader, LeaderPrefix)]
                  /\ prs[k].content[2] =
                        [label |-> "People: ",
                         text  |-> Sanitize(req.pairs[k].People, PeoplePrefix)]

C14_Witness ==
    /\ kind = "ctw" /\ status = "200"
    /\ Len(req.pairs) = 2 /\ req.pairs[1] # req.pairs[2]
    /\ Len(outDeck) = 2 /\ outDeck[1].content # outDeck[2].content

\* the lines of a text that carry the prefix, case-insensitively, after
\* trimming
PrefixedLines(text, prefix) ==
    LET lines == Split(text, <<"\n">>)
    IN  {k \in 1..Len(lines) : MatchAt(LowerSeq(Strip(lines[k])), prefix, 1)}

\* what follows the seven characters of the prefix on line k, trimmed
Remainder(text, k) ==
    LET line == Strip(Split(text, <<"\n">>)[k])
    IN  Strip(SubSeq(line, Len(LeaderPrefix) + 1, Len(line)))

\* C15: with no pairs and a text holding one 'leader:' line and one
\* 'people:' line (any case), the handler builds exactly one pair, Leader
\* and People being the trimmed remainders of those lines, and the slide
\* shows them as its leader and people lines.
C15_TextParsedIntoOnePair ==
    (kind = "ctw" /\ req.text # <<>>
       /\ Cardinality(PrefixedLines(req.text, LeaderPrefix)) = 1
       /\ Cardinality(PrefixedLines(req.text, PeoplePrefix)) = 1
       /\ pc # "parse") =>
        LET l == Remainder(req.text,
                           CHOOSE k \in PrefixedLines(req.text, LeaderPrefix) : TRUE)
            p == Remainder(req.text,
                           CHOOSE k \in PrefixedLines(req.text, PeoplePrefix) : TRUE)
        IN  /\ req.pairs = <<[Leader |-> l, People |-> p]>>
            /\ \A k \in 1..Len(prs) :
                  prs[k].content[1].text = l /\ prs[k].content[2].text = p

\* positions of the children of the run's property node that carry a tag
Positions(tag) == {k \in 1..Len(rPr) : rPr[k].tag = tag}

\* only set_run_effects and set_run_highlight were called, each at least once
OnlySetCalls ==
    /\ kind = "run"
    /\ hist.glow = 0 /\ hist.other = 0
    /\ hist.effects >= 1 /\ hist.highlight >= 1

\* C16 as stated: after any interleaving of set_run_effects and
\* set_run_highlight calls (at least one of each, any arguments) the
\* property node has exactly one effect-list node and exactly one highlight.
C16_ExactlyOneEffectListAndHighlight ==
    OnlySetCalls =>
        /\ Cardinality(Positions("effectLst")) = 1
        /\ Cardinality(Positions("highlight")) = 1

\* C16, amended: after such an interleaving the property node has exactly
\* one highlight node and at most one effect-list node: one when the latest
\* set_run_effects call was given a glow or shadow colour, none when it was
\* given no colour at all.
C16_AtMostOneEffectListOneHighlight ==
    OnlySetCalls =>
        /\ Cardinality(Positions("highlight")) = 1
        /\ Cardinality(Positions("effectLst")) = (IF hist.parts THEN 1 ELSE 0)

C16_Witness ==
    /\ OnlySetCalls
    /\ hist.effects = 2 /\ ~hist.parts
    /\ Positions("effectLst") = {}

\* only glow helpers (add_text_glow, add_text_glow_scheme, add_run_glow)
\* were applied to the run, at least once
OnlyGlowCalls ==
    /\ kind = "run"
    /\ hist.glow >= 1
    /\ hist.effects = 0 /\ hist.highlight = 0 /\ hist.other = 0

\* every effect-list child holds exactly one descriptor, a glow
OneGlowEach ==
    \A k \in Positions("effectLst") :
        Len(rPr[k].kids) = 1 /\ rPr[k].kids[1].tag = "glow"

\* C17 as stated: a glow helper applied to a run that already carries a glow
\* replaces the effect list: after any number of glow applications the run
\* has one effect-list node with one glow descriptor.
C17_GlowReplacesEffectList ==
    OnlyGlowCalls =>
        (Cardinality(Positions("effectLst")) = 1 /\ OneGlowEach)

\* C17, amended: the glow helpers append: after n glow applications the
\* run has n effect-list nodes, each with one glow descriptor, in the
\* order applied; nothing is removed.
C17_GlowAppendsEffectList ==
    OnlyGlowCalls =>
        /\ Len(rPr) = hist.glow
        /\ Positions("effectLst") = 1..hist.glow
        /\ OneGlowEach

C17_Witness ==
    /\ OnlyGlowCalls
    /\ hist.glow = 3
    /\ Cardinality(Positions("effectLst")) = 3
    /\ rPr[1] # rPr[2]

\* both an effect list and a highlight are on the run
BothPresent == Positions("effectLst") # {} /\ Positions("highlight") # {}

EffectsFirst ==
    \A e \in Positions("effectLst") : \A h \in Positions("highlight") : e < h

\* C18 as stated: whatever the order and number of set_run_effects and
\* set_run_highlight calls, the effect-list node precedes the highlight node.
C18_EffectListPrecedesHighlight ==
    (OnlySetCalls /\ BothPresent) => EffectsFirst

\* C18, amended: the effect-list node precedes the highlight node exactly
\* when set_run_highlight was called after the latest set_run_effects call;
\* when set_run_effects ran last, its list follows the highlight.
C18_LatestCallIsLastChild ==
    (OnlySetCalls /\ BothPresent) =>
        (EffectsFirst <=> hist.last = "highlight")

C18_Witness ==
    /\ OnlySetCalls /\ BothPresent
    /\ hist.last = "highlight" /\ hist.effects = 2
    /\ EffectsFirst

\* every magnitude attribute on the run, descriptors inside lists included
Magnitudes ==
    UNION {{rPr[k].mags[x] : x \in 1..Len(rPr[k].mags)}
           \cup UNION {{rPr[k].kids[y].mags[x] :
                           x \in 1..Len(rPr[k].kids[y].mags)} :
                        y \in 1..Len(rPr[k].kids)} :
           k \in 1..Len(rPr)}

\* C19: every magnitude the effect layer writes (glow radius, outline
\* width, shadow blur radius) is the point value times 12700 clamped to a
\* minimum of 1, hence positive, whatever integer was passed in.
C19_MagnitudesClampedPositive ==
    \A m \in Magnitudes :
        /\ m.emu = (IF m.pt * 12700 >= 1 THEN m.pt * 12700 ELSE 1)
        /\ m.emu > 0

\* C20: set_slide_background returns True exactly when the full-canvas
\* picture was added; with no path, a path that is not on disk, or a failing
\* add_picture the slide gets the solid white fill and False is returned, so
\* every slide ends with exactly one background.
C20_PictureOrWhite ==
    kind = "slide" =>
        \A k \in 1..Len(prs) :
            LET sl == prs[k]
                usable == sl.bg # NoPath /\ sl.bg \in fs /\ sl.bg \in images
            IN  /\ sl.ret = sl.image
                /\ sl.image = usable
                /\ sl.white = ~usable
                /\ sl.ret = ~sl.white

C20_Witness ==
    /\ kind = "slide" /\ Len(prs) = 2
    /\ prs[1].bg \in fs \ images /\ prs[1].white /\ ~prs[1].ret
    /\ prs[2].bg \in images /\ prs[2].ret /\ ~prs[2].white

\* C24: an included hymn cover slide is the first slide of the deck: it is
\* added before every lyric slide and exactly once; every later slide is a
\* lyric slide, and without a cover the deck holds lyric slides only.
C24_CoverFirstAndOnce ==
    (kind = "hymn" /\ pc \notin {"recv", "call"}) =>
        /\ (pc = "cover") => prs = <<>>
        /\ (req.include_cover /\ pc # "cover") =>
               (Len(prs) >= 1 /\ prs[1].kind = "cover")
        /\ \A k \in 2..Len(prs) : prs[k].kind = "lyric"
        /\ (~req.include_cover) => \A k \in 1..Len(prs) : prs[k].kind = "lyric"
        /\ (saved => outDeck = prs)

C24_Witness ==
    /\ kind = "hymn" /\ req.include_cover /\ status = "200"
    /\ Len(outDeck) = 3
    /\ outDeck[1].kind = "cover" /\ outDeck[3].kind = "lyric"

\* C25: in every pipeline the slide count in the returned summary equals
\* the number of slides in the serialized deck; for a hymn with a cover it
\* is one cover plus the lyric slides.
C25_SummaryCountsSerializedSlides ==
    (saved /\ kind \in {"scripture", "hymn", "ctw"}) =>
        /\ reported = Len(outDeck)
        /\ (kind = "hymn" /\ req.include_cover) =>
               reported = 1 + Cardinality({k \in 1..Len(outDeck) :
                                             outDeck[k].kind = "lyric"})

C25_Witness ==
    /\ kind = "ctw" /\ saved /\ reported = 2 /\ Len(outDeck) = 2
    /\ pc = "respond"

\* C27: a call-to-worship request with neither pairs nor text is answered
\* with status 400 and detail 'No pairs or text provided', and no output
\* temp file is created.
C27_EmptyRequestIs400 ==
    (kind = "ctw" /\ ~Truthy(req.pairs) /\ ~Truthy(req.text) /\ pc = "done") =>
        /\ status = "400"
        /\ detail = "No pairs or text provided"
        /\ outPath = NoPath /\ fs = {}

\* the trimmed remainder of the last line of the text carrying the prefix,
\* empty when no line carries it
LastRemainder(text, prefix) ==
    LET ks == PrefixedLines(text, prefix)
    IN  IF ks = {} THEN <<>>
        ELSE Remainder(text, CHOOSE k \in ks : \A x \in ks : x <= k)

\* C29: parsing a free text always yields exactly one pair: the last
\* 'leader:' line and the last 'people:' line win, earlier ones are dropped;
\* when no line carries either prefix the pair is the whole text as Leader
\* with an empty People.
C29_LastPrefixedLinesWin ==
    (kind = "ctw" /\ req.text # <<>> /\ pc # "parse") =>
        /\ Len(req.pairs) = 1
        /\ (PrefixedLines(req.text, LeaderPrefix) = {}
              /\ PrefixedLines(req.text, PeoplePrefix) = {}) =>
               req.pairs[1] = [Leader |-> req.text, People |-> <<>>]
        /\ (PrefixedLines(req.text, LeaderPrefix) # {}
              \/ PrefixedLines(req.text, PeoplePrefix) # {}) =>
               req.pairs[1] = [Leader |-> LastRemainder(req.text, LeaderPrefix),
                               People |-> LastRemainder(req.text, PeoplePrefix)]

\* C22: every effect-layer operation is a no-op on a malformed target and
\* never raises: no exception leaves a helper, and a malformed target is
\* left without any child added.
C22_EffectHelpersNeverRaise ==
    kind = "run" =>
        /\ exc = "" /\ status # "raised"
        /\ (target = "malformed") => (rPr = <<>> /\ endRPr = <<>>)

\* the steps the builder has taken that are named step
StepsNamed(step) == {k \in DOMAIN events : events[k] = step}

\* C21: adding the decorative placeholder image never aborts the build of
\* a slide: no exception leaves the builder, whatever the placeholder
\* file is.
C21_PlaceholderNeverAborts ==
    kind = "build" => (pc # "raised" /\ exc = "")

\* C28: on every slide set_slide_background is applied exactly once and
\* before any other shape is added, so a background picture is the first
\* shape of its slide.
C28_BackgroundFirstAndOnce ==
    kind = "build" =>
        /\ Cardinality(StepsNamed("background")) = 1 - (IF pc = "bg" THEN 1 ELSE 0)
        /\ events # <<>> => events[1] = "background"
        /\ \A k \in DOMAIN shapes : shapes[k].role = "background" <=> 
               (k = 1 /\ PictureAdded(bgPath, fs))

C28_Witness ==
    /\ kind = "build" /\ pc = "built"
    /\ Len(shapes) = 4
    /\ shapes[1].role = "background" /\ shapes[2].role = "placeholder"
    /\ shapes[4].kind = "textbox"

\* the rPr children lists of every run of the slide
SlideRuns ==
    UNION {UNION {{shapes[k].paras[p].runs[r] :
                      r \in DOMAIN shapes[k].paras[p].runs} :
                  p \in DOMAIN shapes[k].paras} :
           k \in DOMAIN shapes}

TagCount(children, tag) ==
    Cardinality({k \in DOMAIN children : children[k].tag = tag})

\* C30: each run of a slide the builders produce carries at most one
\* effect-list node and at most one highlight node.
C30_RunsCarryOneEffectListOneHighlight ==
    kind = "build" =>
        \A run \in SlideRuns :
            TagCount(run, "effectLst") <= 1 /\ TagCount(run, "highlight") <= 1

C30_Witness ==
    /\ kind = "build" /\ pc = "built" /\ req.builder = "ctw"
    /\ \E run \in SlideRuns :
          TagCount(run, "effectLst") = 1 /\ TagCount(run, "highlight") = 1
    /\ \E run \in SlideRuns :
          TagCount(run, "effectLst") = 1 /\ TagCount(run, "highlight") = 0

\* the temp paths request p has been given and has yet to read, write or
\* remove
InUse(p) ==
    (IF procs[p].pc \in {"build", "cleanup"} /\ procs[p].bgPath # NoPath
     THEN {procs[p].bgPath} ELSE {})
    \cup (IF procs[p].pc \in {"resolve", "build", "cleanup", "save", "respond"}
          THEN {procs[p].outPath} ELSE {})

\* C26: in every interleaving of the requests in flight, no two requests
\* hold the same background or output temp path, and no file a request
\* still uses has been removed: the file is on the disk, the background
\* was there when the slides were built and the deck when it was served.
C26_TempPathsAreIsolated ==
    kind = "conc" =>
        /\ \A p, q \in DOMAIN procs : p # q => InUse(p) \cap InUse(q) = {}
        /\ \A p \in DOMAIN procs :
              /\ InUse(p) \subseteq fs
              /\ (procs[p].bg /\ procs[p].pc \in {"cleanup", "save", "respond", "done"})
                     => procs[p].bgSeen
              /\ procs[p].pc = "done" => procs[p].served

\* one request has removed its background file while another is between
\* creating and removing its own
C26_Witness ==
    /\ kind = "conc"
    /\ \E p, q \in DOMAIN procs :
          /\ p # q
          /\ procs[p].pc = "save" /\ procs[p].bgPath # NoPath
          /\ procs[p].bgPath \notin fs
          /\ procs[q].pc = "cleanup" /\ procs[q].bgPath \in fs

\* the lyric sections the payload stands for, whatever its shape: the
\* 'lyrics' array, else the converted 'verses' array
PayloadLyrics ==
    IF req.hasLyrics THEN req.lyricsIn
    ELSE [k \in 1..Len(req.versesIn) |->
            [page_name |-> IF req.versesIn[k].named
                           THEN req.versesIn[k].page_name
                           ELSE "Verse " \o ToString(k),
             text |-> req.versesIn[k].text]]

LyricSlides(deck) == SelectSeq(deck, LAMBDA sl : sl.kind = "lyric")

\* C23: the hymn handler produces the same lyric slides for a flat payload
\* and for the same payload nested under 'hymn': in both shapes the
\* sections are the 'lyrics' array or, without one, the converted 'verses'
\* array, and the saved deck holds one lyric slide per section with text.
C23_ShapesGiveSameLyricSlides ==
    (kind = "hymn" /\ "shape" \in DOMAIN req) =>
        /\ pc # "extract" => req.lyrics = PayloadLyrics
        /\ saved =>
              LET kept == SelectSeq(PayloadLyrics, LAMBDA sec : sec.text # <<>>)
              IN  /\ Len(LyricSlides(outDeck)) = Len(kept)
                  /\ \A k \in 1..Len(kept) :
                        LyricSlides(outDeck)[k].label = kept[k].page_name
====
